---- MODULE Spec2Model ----
(***************************************************************************)
(* A model of the auto-gis-with-rust geometry library: the constructors    *)
(* of LineString, MultiLineString, PolygonRing, Polygon, MultiPolygon,     *)
(* LineSegment and MultiPoint, and the predicates computed on them.        *)
(*                                                                         *)
(* The library is a set of functions over values the caller owns.  The     *)
(* state is the value the caller currently holds (held), the call it made  *)
(* last (call) and what that call gave back (ret).  A call either returns  *)
(* (Ok / Err for a Result, Value for a plain return) or panics.            *)
(*                                                                         *)
(* f64 is modelled as the exact fractions num/den in lowest terms, plus    *)
(* the non-finite values NaN (0/0) and the infinities (+-1/0), plus the    *)
(* fractions of f64::MAX, on which a sum overflows to an infinity and next *)
(* to which an ordinary fraction is rounded away.  Other rounding and the  *)
(* sign of zero are not modelled.  The f64 comparison == is FEq: NaN is    *)
(* not equal to anything, itself included; TLA+'s = on two modelled values *)
(* says that they are the same stored value.                               *)
(***************************************************************************)
EXTENDS Integers, Sequences, FiniteSets, TLC

VARIABLES held, call, ret

vars == <<held, call, ret>>

(***************************************************************************)
(* Bounds of the model.                                                    *)
(***************************************************************************)
\* Longest coordinate sequence handed to LineString::new / PolygonRing::new.
MaxLen == 4
\* Most members of a nested input (rings of a polygon, polygons of a
\* multi-polygon, line strings of a multi-line-string).
MaxMembers == 2
\* Most points of a MultiPoint.
MaxPoints == 3
\* Largest index passed to geometry_n / point_n.
MaxIndex == 3

(***************************************************************************)
(* f64                                                                     *)
(***************************************************************************)
Abs(n) == IF n < 0 THEN -n ELSE n

Sign(n) == IF n < 0 THEN -1 ELSE IF n > 0 THEN 1 ELSE 0

RECURSIVE GCD(_, _)
GCD(a, b) == IF b = 0 THEN a ELSE GCD(b, a % b)

\* The f64 with value n/d (d may be 0: NaN for 0/0, an infinity otherwise).
Frac(n, d) ==
    IF d = 0 THEN [num |-> Sign(n), den |-> 0]
    ELSE LET g == GCD(Abs(n), Abs(d))
             s == Sign(d)
         IN  [num |-> (s * n) \div g, den |-> (s * d) \div g]

NaN == [num |-> 0, den |-> 0]

IsNaN(a) == a.den = 0 /\ a.num = 0

IsFinite(a) == a.den # 0

\* f64 == (PartialEq for f64): NaN compares unequal to everything.
FEq(a, b) == ~IsNaN(a) /\ ~IsNaN(b) /\ a = b

\* The f64 nearest to n/d of f64::MAX, 0 < |n/d| <= 1.  Every ordinary
\* fraction of the model is smaller than half the gap between two f64 of
\* this size.
Big(n, d) ==
    [num |-> Frac(n, d).num, den |-> Frac(n, d).den, scale |-> "MAX"]

IsBig(a) == "scale" \in DOMAIN a

\* f64 + on two fractions of f64::MAX: a sum past f64::MAX is an infinity.
BigAdd(a, b) ==
    LET r == Frac(a.num * b.den + b.num * a.den, a.den * b.den)
    IN  IF r.num = 0 THEN r
        ELSE IF Abs(r.num) > r.den THEN [num |-> Sign(r.num), den |-> 0]
        ELSE Big(r.num, r.den)

\* f64 +
FAdd(a, b) ==
    IF IsNaN(a) \/ IsNaN(b) THEN NaN
    ELSE IF ~IsFinite(a) /\ ~IsFinite(b) THEN (IF a = b THEN a ELSE NaN)
    ELSE IF ~IsFinite(a) THEN a
    ELSE IF ~IsFinite(b) THEN b
    ELSE IF IsBig(a) /\ IsBig(b) THEN BigAdd(a, b)
    ELSE IF IsBig(a) THEN a
    ELSE IF IsBig(b) THEN b
    ELSE Frac(a.num * b.den + b.num * a.den, a.den * b.den)

FNeg(a) == [a EXCEPT !.num = -a.num]

\* f64 -
FSub(a, b) == FAdd(a, FNeg(b))

\* f64 /
FDiv(a, b) ==
    IF IsNaN(a) \/ IsNaN(b) THEN NaN
    ELSE IF ~IsFinite(a) /\ ~IsFinite(b) THEN NaN
    ELSE IF ~IsFinite(a) THEN [num |-> a.num * (IF b.num < 0 THEN -1 ELSE 1), den |-> 0]
    ELSE IF ~IsFinite(b) THEN Frac(0, 1)
    ELSE IF IsBig(a) /\ ~IsBig(b)
         THEN LET r == Frac(a.num * b.den, a.den * b.num)
              IN  IF r.den = 0 \/ Abs(r.num) > r.den
                  THEN [num |-> Sign(r.num), den |-> 0]
                  ELSE Big(r.num, r.den)
    ELSE IF IsBig(b) /\ ~IsBig(a) THEN [quotient |-> <<a, b>>]
    ELSE Frac(a.num * b.den, a.den * b.num)

\* f64 *
FMul(a, b) ==
    IF IsNaN(a) \/ IsNaN(b) THEN NaN
    ELSE IF ~IsFinite(a) \/ ~IsFinite(b)
         THEN [num |-> Sign(a.num) * Sign(b.num), den |-> 0]
    ELSE IF IsBig(a) \/ IsBig(b) THEN [product |-> <<a, b>>]
    ELSE Frac(a.num * b.num, a.den * b.den)

\* f64::powi(2)
FSquare(a) == FMul(a, a)

IsSquare(n) == \E r \in 0..n : r * r = n

ISqrt(n) == CHOOSE r \in 0..n : r * r = n

\* f64::sqrt.  The root of a fraction that is not the square of a fraction is
\* kept as the f64 nearest to that root, not computed.
FSqrt(a) ==
    IF IsNaN(a) THEN NaN
    ELSE IF ~IsFinite(a) THEN (IF a.num > 0 THEN a ELSE NaN)
    ELSE IF a.num < 0 THEN NaN
    ELSE IF IsBig(a) THEN [root |-> a]
    ELSE IF IsSquare(a.num) /\ IsSquare(a.den)
         THEN Frac(ISqrt(a.num), ISqrt(a.den))
    ELSE [root |-> a]

\* The decimal digits of r/d after the point, r < d, d a power of two.
RECURSIVE fmt_digits(_, _)
fmt_digits(r, d) ==
    IF r = 0 THEN ""
    ELSE ToString((r * 10) \div d) \o fmt_digits((r * 10) % d, d)

Twice(s) == s \o s

\* 292 = 256 + 32 + 4 zeros.
Zeros292 ==
    LET z4 == "0000"
        z32 == Twice(Twice(Twice(z4)))
        z256 == Twice(Twice(Twice(z32)))
    IN  z256 \o z32 \o z4

\* Display for f64 ("{}"): NaN, inf, -inf, or the decimal expansion, with no
\* decimal point when the value is an integer.  f64::MAX is its 17
\* significant digits and 292 zeros; no other value of its scale is stored.
fmt_f64(a) ==
    IF IsNaN(a) THEN "NaN"
    ELSE IF ~IsFinite(a) THEN (IF a.num < 0 THEN "-inf" ELSE "inf")
    ELSE IF IsBig(a) /\ Abs(a.num) = a.den
         THEN (IF a.num < 0 THEN "-" ELSE "") \o "17976931348623157" \o Zeros292
    ELSE LET n == Abs(a.num)
         IN  (IF a.num < 0 THEN "-" ELSE "")
                 \o ToString(n \div a.den)
                 \o (IF n % a.den = 0 THEN ""
                     ELSE "." \o fmt_digits(n % a.den, a.den))

\* itertools format_with(sep, ..) over items already formatted.
RECURSIVE format_with(_, _)
format_with(items, sep) ==
    IF Len(items) = 0 THEN ""
    ELSE IF Len(items) = 1 THEN items[1]
    ELSE items[1] \o sep \o format_with(Tail(items), sep)

\* format_args!("{} {}", point[0], point[1])
fmt_point(point) == fmt_f64(point[1]) \o " " \o fmt_f64(point[2])

\* ring.iter().format_with(", ", ..) of a coordinate sequence.
fmt_points(coordinates) ==
    format_with([i \in 1..Len(coordinates) |-> fmt_point(coordinates[i])], ", ")

\* .format_with(", ", |ring, f| f(&format_args!("({})", ring)))
fmt_rings(rings) ==
    format_with([i \in 1..Len(rings) |-> "(" \o fmt_points(rings[i]) \o ")"], ", ")

(***************************************************************************)
(* Numeric coercion.  A call is generic in one numeric type T; a raw       *)
(* component is an integer when T is "i32" and an f64 when T is "f64".     *)
(***************************************************************************)
\* num_traits::cast::<T, f64>(x).unwrap(): Some for every i32 and every f64.
cast(T, x) == IF T = "i32" THEN Frac(x, 1) ELSE x

\* [T; 2] -> [f64; 2]
cast_coordinate(T, c) == <<cast(T, c[1]), cast(T, c[2])>>

get_float_coordinates(T, coordinates) ==
    [i \in 1..Len(coordinates) |-> cast_coordinate(T, coordinates[i])]

\* == on [f64; 2] (and on Point, which derives PartialEq over [f64; 2]).
CoordEq(a, b) == FEq(a[1], b[1]) /\ FEq(a[2], b[2])

(***************************************************************************)
(* Outcomes of a call.                                                     *)
(***************************************************************************)
TooFewCoords(n) == [kind |-> "TooFewCoords", n |-> n]

\* The panic payload of an index past the end of a Vec, slice or array.
IndexOutOfBounds(len, index) ==
    [kind |-> "IndexOutOfBounds", len |-> len, index |-> index]

Ok(v) == [tag |-> "Ok", val |-> v]

Err(e) == [tag |-> "Err", err |-> e]

\* Result::unwrap() on Err(e): the thread panics with e in its message.
Panic(e) == [tag |-> "Panic", err |-> e]

Value(v) == [tag |-> "Value", val |-> v]

NoRet == [tag |-> "None"]

Nothing == [kind |-> "None"]

Held(k, v) == [kind |-> k, val |-> v]

Idle == [op |-> "idle"]

\* self[number] through Deref, number: usize counted from 0.  The index
\* operator panics past the end.
Index(self, number) ==
    IF number < Len(self) THEN Value(self[number + 1])
    ELSE Panic(IndexOutOfBounds(Len(self), number))

(***************************************************************************)
(* LineString, MultiLineString                                             *)
(***************************************************************************)
\* LineString::new as it would be had it closed its input the way a ring is
\* closed.
LineString_new_closing(T, coordinates) ==
    LET number_of_coordinates == Len(coordinates)
    IN  IF number_of_coordinates < 2
        THEN Err(TooFewCoords(number_of_coordinates))
        ELSE LET float_coordinates == get_float_coordinates(T, coordinates)
             IN  IF ~CoordEq(float_coordinates[1],
                             float_coordinates[number_of_coordinates])
                 THEN Ok(Append(float_coordinates, float_coordinates[1]))
                 ELSE Ok(float_coordinates)

LineString_new(T, coordinates) ==
    LET number_of_coordinates == Len(coordinates)
    IN  IF number_of_coordinates < 2
        THEN Err(TooFewCoords(number_of_coordinates))
        ELSE Ok(get_float_coordinates(T, coordinates))

\* impl fmt::Display for LineString
LineString_to_string(self) == "LINESTRING (" \o fmt_points(self) \o ")"

MultiLineString_new(linestrings) == linestrings

\* The collection as it would be had it gone on after an Err and kept the
\* last one.
RECURSIVE collect_line_strings_last_error(_, _, _, _)
collect_line_strings_last_error(T, vectors, i, acc) ==
    IF i > Len(vectors) THEN Ok(acc)
    ELSE LET r == LineString_new(T, vectors[i])
             rest == collect_line_strings_last_error(
                         T, vectors, i + 1,
                         IF r.tag = "Err" THEN acc ELSE Append(acc, r.val))
         IN  IF rest.tag = "Err" THEN rest
             ELSE IF r.tag = "Err" THEN r
             ELSE rest

\* vectors.into_iter().map(LineString::new).collect::<Result<Vec<_>, _>>():
\* members are built in order; the first Err ends the iteration and is the
\* result.  acc holds the members built so far.
RECURSIVE collect_line_strings(_, _, _, _)
collect_line_strings(T, vectors, i, acc) ==
    IF i > Len(vectors) THEN Ok(acc)
    ELSE LET r == LineString_new(T, vectors[i])
         IN  IF r.tag = "Err" THEN r
             ELSE collect_line_strings(T, vectors, i + 1, Append(acc, r.val))

\* impl fmt::Display for MultiLineString
MultiLineString_to_string(self) == "MULTILINESTRING (" \o fmt_rings(self) \o ")"

MultiLineString_try_from(T, vectors) ==
    LET line_strings == collect_line_strings(T, vectors, 1, <<>>)
    IN  IF line_strings.tag = "Err" THEN line_strings
        ELSE Ok(MultiLineString_new(line_strings.val))

(***************************************************************************)
(* PolygonRing, Polygon, MultiPolygon                                      *)
(***************************************************************************)
\* PolygonRing::new as it would be with the guard of LineString::new.
PolygonRing_new_guard2(T, coordinates) ==
    LET number_of_coordinates == Len(coordinates)
    IN  IF number_of_coordinates < 2
        THEN Err(TooFewCoords(number_of_coordinates))
        ELSE LET float_coordinates == get_float_coordinates(T, coordinates)
             IN  IF ~CoordEq(float_coordinates[1],
                             float_coordinates[number_of_coordinates])
                 THEN Ok(Append(float_coordinates, float_coordinates[1]))
                 ELSE Ok(float_coordinates)

\* PolygonRing::new as it would be without the closing push.
PolygonRing_new_no_closure(T, coordinates) ==
    LET number_of_coordinates == Len(coordinates)
    IN  IF number_of_coordinates < 3
        THEN Err(TooFewCoords(number_of_coordinates))
        ELSE Ok(get_float_coordinates(T, coordinates))

\* PolygonRing::new as it would be had it pushed the first coordinate
\* without testing for closure.
PolygonRing_new_always_push(T, coordinates) ==
    LET number_of_coordinates == Len(coordinates)
    IN  IF number_of_coordinates < 3
        THEN Err(TooFewCoords(number_of_coordinates))
        ELSE LET float_coordinates == get_float_coordinates(T, coordinates)
             IN  Ok(Append(float_coordinates, float_coordinates[1]))

PolygonRing_new(T, coordinates) ==
    LET number_of_coordinates == Len(coordinates)
    IN  IF number_of_coordinates < 3
        THEN Err(TooFewCoords(number_of_coordinates))
        ELSE LET float_coordinates == get_float_coordinates(T, coordinates)
             IN  IF ~CoordEq(float_coordinates[1],
                             float_coordinates[number_of_coordinates])
                 THEN Ok(Append(float_coordinates, float_coordinates[1]))
                 ELSE Ok(float_coordinates)

\* The collection of rings as it would be had it returned the first Err
\* instead of unwrapping it.
RECURSIVE collect_rings_propagating(_, _, _, _)
collect_rings_propagating(T, rings, i, acc) ==
    IF i > Len(rings) THEN Ok(acc)
    ELSE LET r == PolygonRing_new(T, rings[i])
         IN  IF r.tag = "Err" THEN r
             ELSE collect_rings_propagating(T, rings, i + 1, Append(acc, r.val))

\* rings.into_iter().map(|ring| PolygonRing::new(ring).unwrap()).collect():
\* rings are built in order and the first Err is unwrapped, which panics.
RECURSIVE collect_rings(_, _, _, _)
collect_rings(T, rings, i, acc) ==
    IF i > Len(rings) THEN Ok(acc)
    ELSE LET r == PolygonRing_new(T, rings[i])
         IN  IF r.tag = "Err" THEN Panic(r.err)
             ELSE collect_rings(T, rings, i + 1, Append(acc, r.val))

Polygon_new(T, rings) == collect_rings(T, rings, 1, <<>>)

MultiPolygon_new(polygons) == polygons

\* vectors.into_iter().map(Polygon::new).collect::<Result<Vec<_>, _>>(): a
\* panic inside Polygon::new unwinds through the iteration; an Err would end
\* it and be returned by the ? operator.
\* impl fmt::Display for Polygon
Polygon_to_string(self) == "POLYGON (" \o fmt_rings(self) \o ")"

\* impl fmt::Display for MultiPolygon
MultiPolygon_to_string(self) ==
    "MULTIPOLYGON ("
        \o format_with([i \in 1..Len(self) |-> "(" \o fmt_rings(self[i]) \o ")"], ", ")
        \o ")"

RECURSIVE collect_polygons(_, _, _, _)
collect_polygons(T, vectors, i, acc) ==
    IF i > Len(vectors) THEN Ok(acc)
    ELSE LET r == Polygon_new(T, vectors[i])
         IN  IF r.tag = "Panic" THEN r
             ELSE IF r.tag = "Err" THEN r
             ELSE collect_polygons(T, vectors, i + 1, Append(acc, r.val))

MultiPolygon_try_from(T, vectors) ==
    LET polygons == collect_polygons(T, vectors, 1, <<>>)
    IN  IF polygons.tag = "Ok" THEN Ok(MultiPolygon_new(polygons.val))
        ELSE polygons

(***************************************************************************)
(* Point, MultiPoint                                                       *)
(***************************************************************************)
\* Point::new(x, y) on two f64: both casts are f64 -> f64.
Point_new(x, y) == <<cast("f64", x), cast("f64", y)>>

Point_x(self) == self[1]

Point_y(self) == self[2]

\* impl From<[T; 2]> for Point
Point_from(T, coordinates) == <<cast(T, coordinates[1]), cast(T, coordinates[2])>>

MultiPoint_new(points) == points

\* impl From<Vec<[T; 2]>> for MultiPoint
MultiPoint_from(T, items) ==
    MultiPoint_new([i \in 1..Len(items) |-> Point_from(T, items[i])])

MultiPoint_num_geometries(self) == Len(self)

MultiPoint_geometry_n(self, number) == Index(self, number)

\* The sum as it would be had it left out a point equal to an earlier one.
RECURSIVE MultiPoint_sum_distinct(_, _, _, _)
MultiPoint_sum_distinct(self, axis, i, acc) ==
    IF i > Len(self) THEN acc
    ELSE IF \E j \in 1..(i - 1) : CoordEq(self[j], self[i])
         THEN MultiPoint_sum_distinct(self, axis, i + 1, acc)
    ELSE MultiPoint_sum_distinct(self, axis, i + 1, FAdd(acc, self[i][axis]))

\* self.iter().map(|point| point.x()).sum() for axis 1 (point.y() for axis
\* 2): the f64 additions are made in member order, starting from zero.
RECURSIVE MultiPoint_sum(_, _, _, _)
MultiPoint_sum(self, axis, i, acc) ==
    IF i > Len(self) THEN acc
    ELSE MultiPoint_sum(self, axis, i + 1, FAdd(acc, self[i][axis]))

MultiPoint_centroid(self) ==
    LET points == Frac(MultiPoint_num_geometries(self), 1)
        sum_x == MultiPoint_sum(self, 1, 1, Frac(0, 1))
        sum_y == MultiPoint_sum(self, 2, 1, Frac(0, 1))
    IN  Point_new(FDiv(sum_x, points), FDiv(sum_y, points))

\* impl fmt::Display for MultiPoint
MultiPoint_to_string(self) ==
    "MULTIPOINT ("
        \o format_with([i \in 1..Len(self) |-> "(" \o fmt_point(self[i]) \o ")"], ", ")
        \o ")"

\* The inner loop as it would be had it tolerated two matches.
RECURSIVE MultiPoint_is_simple_inner_two(_, _, _, _)
MultiPoint_is_simple_inner_two(self, i, j, matches) ==
    IF j > Len(self) THEN FALSE
    ELSE IF CoordEq(self[i], self[j])
         THEN IF matches + 1 > 2 THEN TRUE
              ELSE MultiPoint_is_simple_inner_two(self, i, j + 1, matches + 1)
         ELSE MultiPoint_is_simple_inner_two(self, i, j + 1, matches)

\* The inner loop of MultiPoint::is_simple for the point at index i, from
\* the other point at index j on, with the matches counted so far; TRUE when
\* it reaches `return false`.
RECURSIVE MultiPoint_is_simple_inner(_, _, _, _)
MultiPoint_is_simple_inner(self, i, j, matches) ==
    IF j > Len(self) THEN FALSE
    ELSE IF CoordEq(self[i], self[j])
         THEN IF matches + 1 > 1 THEN TRUE
              ELSE MultiPoint_is_simple_inner(self, i, j + 1, matches + 1)
         ELSE MultiPoint_is_simple_inner(self, i, j + 1, matches)

\* The outer loop of MultiPoint::is_simple from the point at index i on.
RECURSIVE MultiPoint_is_simple_outer(_, _)
MultiPoint_is_simple_outer(self, i) ==
    IF i > Len(self) THEN TRUE
    ELSE IF MultiPoint_is_simple_inner(self, i, 1, 0) THEN FALSE
    ELSE MultiPoint_is_simple_outer(self, i + 1)

MultiPoint_is_simple(self) == MultiPoint_is_simple_outer(self, 1)

(***************************************************************************)
(* LineSegment                                                             *)
(***************************************************************************)
LineSegment_new(T, coordinates) ==
    <<cast_coordinate(T, coordinates[1]), cast_coordinate(T, coordinates[2])>>

LineSegment_start_point(self) == Point_new(self[1][1], self[1][2])

LineSegment_end_point(self) == Point_new(self[2][1], self[2][2])

LineSegment_x_length(self) ==
    FSub(Point_x(LineSegment_end_point(self)), Point_x(LineSegment_start_point(self)))

LineSegment_y_length(self) ==
    FSub(Point_y(LineSegment_end_point(self)), Point_y(LineSegment_start_point(self)))

LineSegment_centroid(self) ==
    LET x == FDiv(LineSegment_x_length(self), Frac(2, 1))
        y == FDiv(LineSegment_y_length(self), Frac(2, 1))
    IN  Point_new(x, y)

LineSegment_is_closed(self) ==
    CoordEq(LineSegment_start_point(self), LineSegment_end_point(self))

\* The inner loop as it would be without the tolerance for a closed segment.
RECURSIVE LineSegment_is_simple_inner_strict(_, _, _, _)
LineSegment_is_simple_inner_strict(self, i, j, matches) ==
    IF j > Len(self) THEN FALSE
    ELSE IF CoordEq(self[i], self[j])
         THEN IF matches + 1 > 1 THEN TRUE
              ELSE LineSegment_is_simple_inner_strict(self, i, j + 1, matches + 1)
         ELSE LineSegment_is_simple_inner_strict(self, i, j + 1, matches)

\* The inner loop of LineSegment::is_simple; TRUE when it reaches one of the
\* two `return false`.
RECURSIVE LineSegment_is_simple_inner(_, _, _, _)
LineSegment_is_simple_inner(self, i, j, matches) ==
    IF j > Len(self) THEN FALSE
    ELSE IF CoordEq(self[i], self[j])
         THEN IF LineSegment_is_closed(self)
              THEN IF matches + 1 > 2 THEN TRUE
                   ELSE LineSegment_is_simple_inner(self, i, j + 1, matches + 1)
              ELSE IF matches + 1 > 1 THEN TRUE
                   ELSE LineSegment_is_simple_inner(self, i, j + 1, matches + 1)
         ELSE LineSegment_is_simple_inner(self, i, j + 1, matches)

RECURSIVE LineSegment_is_simple_outer(_, _)
LineSegment_is_simple_outer(self, i) ==
    IF i > Len(self) THEN TRUE
    ELSE IF LineSegment_is_simple_inner(self, i, 1, 0) THEN FALSE
    ELSE LineSegment_is_simple_outer(self, i + 1)

LineSegment_is_simple(self) == LineSegment_is_simple_outer(self, 1)

LineSegment_length(self) ==
    LET a == LineSegment_y_length(self)
        b == LineSegment_x_length(self)
        c_squared == FAdd(FSquare(a), FSquare(b))
    IN  FSqrt(c_squared)

\* impl fmt::Display for LineSegment
LineSegment_to_string(self) == "LINESTRING (" \o fmt_points(self) \o ")"

LineSegment_num_points(self) == Len(self)

LineSegment_point_n(self, number) ==
    LET coordinate == Index(self, number)
    IN  IF coordinate.tag = "Value"
        THEN Value(Point_from("f64", coordinate.val))
        ELSE coordinate

\* is_ring as it would be with || in place of &&.
LineSegment_is_ring_or(self) ==
    LineSegment_is_closed(self) \/ LineSegment_is_simple(self)

LineSegment_is_ring(self) ==
    LineSegment_is_closed(self) /\ LineSegment_is_simple(self)

(***************************************************************************)
(* The inputs a caller passes.                                             *)
(***************************************************************************)
Types == {"i32", "f64"}

\* The raw component of type T with the integer value n.
Raw(T, n) == IF T = "i32" THEN n ELSE Frac(n, 1)

RawCoord(T, x, y) == <<Raw(T, x), Raw(T, y)>>

\* Coordinates of type T: a few integer-valued ones and, for f64, one with a
\* fractional component and one with a NaN component.
Coords(T) ==
    {RawCoord(T, 0, 0), RawCoord(T, 1, 0), RawCoord(T, 1, 1)}
        \cup (IF T = "f64" THEN {<<Frac(1, 2), Frac(1, 1)>>, <<NaN, Frac(0, 1)>>}
              ELSE {})

\* The points of a MultiPoint: those, and for f64 two points whose x is
\* f64::MAX and -f64::MAX.
PointCoords(T) ==
    Coords(T)
        \cup (IF T = "f64" THEN {<<Big(1, 1), Frac(0, 1)>>, <<Big(-1, 1), Frac(1, 1)>>}
              ELSE {})

SeqsUpTo(S, n) == UNION {[1..k -> S] : k \in 0..n}

\* Coordinate sequences used as the members of a MultiLineString input: two
\* that are too short for a line string, and two that are long enough.
LineSamples(T) ==
    LET a == RawCoord(T, 0, 0)
        b == RawCoord(T, 0, 1)
        c == RawCoord(T, 1, 1)
    IN  {<<>>, <<a>>, <<a, b>>, <<a, b, c>>}

\* Coordinate sequences used as the rings of a MultiPolygon input: two that
\* are too short for a ring, and an open ring.
OpenRingSamples(T) ==
    LET a == RawCoord(T, 0, 0)
        b == RawCoord(T, 0, 1)
        c == RawCoord(T, 1, 1)
    IN  {<<a>>, <<a, b>>, <<a, b, c>>}

\* Coordinate sequences used as the rings of a Polygon input: those, and a
\* closed ring.
RingSamples(T) ==
    OpenRingSamples(T)
        \cup {<<RawCoord(T, 0, 0), RawCoord(T, 0, 1), RawCoord(T, 1, 1), RawCoord(T, 0, 0)>>}

\* The two end points of a segment are drawn from a 3 x 3 grid.
SegmentCoords(T) ==
    {RawCoord(T, x, y) : x \in {0, 1, 4}, y \in {0, 3}}
        \cup (IF T = "f64" THEN {<<NaN, Frac(0, 1)>>} ELSE {})

Call(op, T, arg) == [op |-> op, T |-> T, arg |-> arg]

Init ==
    /\ held = Nothing
    /\ call = Idle
    /\ ret = NoRet

\* A constructor returning Result<Self, GeometryError>: the caller holds the
\* value when it is Ok, and nothing otherwise.
Constructed(op, T, arg, kind, r) ==
    /\ call' = Call(op, T, arg)
    /\ ret' = r
    /\ held' = IF r.tag = "Ok" THEN Held(kind, r.val) ELSE Nothing

Do_LineString_new ==
    /\ call = Idle
    /\ \E T \in Types : \E coordinates \in SeqsUpTo(Coords(T), MaxLen) :
          Constructed("LineString::new", T, coordinates, "LineString",
                      LineString_new(T, coordinates))

Do_MultiLineString_try_from ==
    /\ call = Idle
    /\ \E T \in Types : \E vectors \in SeqsUpTo(LineSamples(T), MaxMembers) :
          Constructed("MultiLineString::try_from", T, vectors, "MultiLineString",
                      MultiLineString_try_from(T, vectors))

Do_PolygonRing_new ==
    /\ call = Idle
    /\ \E T \in Types : \E coordinates \in SeqsUpTo(Coords(T), MaxLen) :
          Constructed("PolygonRing::new", T, coordinates, "PolygonRing",
                      PolygonRing_new(T, coordinates))

\* PolygonRing::new on the coordinates a ring stores (ring.to_vec()): the
\* caller then holds the ring built from them.
Do_PolygonRing_new_stored ==
    /\ held.kind = "PolygonRing"
    /\ ret.tag # "Panic"
    /\ Len(held.val) <= MaxLen + 1
    /\ Constructed("PolygonRing::new(ring.to_vec())", "f64", held.val, "PolygonRing",
                   PolygonRing_new("f64", held.val))

Do_Polygon_new ==
    /\ call = Idle
    /\ \E T \in Types : \E rings \in SeqsUpTo(RingSamples(T), MaxMembers) :
          Constructed("Polygon::new", T, rings, "Polygon", Polygon_new(T, rings))

Do_MultiPolygon_try_from ==
    /\ call = Idle
    /\ \E T \in Types :
          \E vectors \in SeqsUpTo(SeqsUpTo(OpenRingSamples(T), MaxMembers), MaxMembers) :
             Constructed("MultiPolygon::try_from", T, vectors, "MultiPolygon",
                         MultiPolygon_try_from(T, vectors))

Do_LineSegment_new ==
    /\ call = Idle
    /\ \E T \in Types : \E coordinates \in [1..2 -> SegmentCoords(T)] :
          /\ call' = Call("LineSegment::new", T, coordinates)
          /\ ret' = Value(LineSegment_new(T, coordinates))
          /\ held' = Held("LineSegment", LineSegment_new(T, coordinates))

Do_MultiPoint_from ==
    /\ call = Idle
    /\ \E T \in Types : \E items \in SeqsUpTo(PointCoords(T), MaxPoints) :
          /\ call' = Call("MultiPoint::from", T, items)
          /\ ret' = Value(MultiPoint_from(T, items))
          /\ held' = Held("MultiPoint", MultiPoint_from(T, items))

\* A method as it would be had it taken self by value: the value moves into
\* the call and is gone when it returns.
Method_by_value(op, v) ==
    /\ ret.tag # "Panic"
    /\ call' = [op |-> op]
    /\ ret' = Value(v)
    /\ held' = Nothing

\* A method taking &self on the held value: the value stays with the caller.
Method(op, v) ==
    /\ ret.tag # "Panic"
    /\ call' = [op |-> op]
    /\ ret' = Value(v)
    /\ UNCHANGED held

Do_LineSegment_centroid ==
    /\ held.kind = "LineSegment"
    /\ Method("LineSegment::centroid", LineSegment_centroid(held.val))

Do_LineSegment_is_simple ==
    /\ held.kind = "LineSegment"
    /\ Method("LineSegment::is_simple", LineSegment_is_simple(held.val))

Do_MultiPoint_is_simple ==
    /\ held.kind = "MultiPoint"
    /\ Method("MultiPoint::is_simple", MultiPoint_is_simple(held.val))

Do_LineSegment_is_closed ==
    /\ held.kind = "LineSegment"
    /\ Method("LineSegment::is_closed", LineSegment_is_closed(held.val))

Do_LineSegment_is_ring ==
    /\ held.kind = "LineSegment"
    /\ Method("LineSegment::is_ring", LineSegment_is_ring(held.val))

Do_MultiPoint_centroid ==
    /\ held.kind = "MultiPoint"
    /\ Method("MultiPoint::centroid", MultiPoint_centroid(held.val))

\* A method taking &self and an index: it returns or panics.
IndexedMethod(op, number, r) ==
    /\ ret.tag # "Panic"
    /\ call' = [op |-> op, number |-> number]
    /\ ret' = r
    /\ UNCHANGED held

Do_MultiPoint_num_geometries ==
    /\ held.kind = "MultiPoint"
    /\ Method("MultiPoint::num_geometries", MultiPoint_num_geometries(held.val))

Do_MultiPoint_geometry_n ==
    /\ held.kind = "MultiPoint"
    /\ \E number \in 0..MaxIndex :
          IndexedMethod("MultiPoint::geometry_n", number,
                        MultiPoint_geometry_n(held.val, number))

Do_LineSegment_start_point ==
    /\ held.kind = "LineSegment"
    /\ Method("LineSegment::start_point", LineSegment_start_point(held.val))

Do_LineSegment_end_point ==
    /\ held.kind = "LineSegment"
    /\ Method("LineSegment::end_point", LineSegment_end_point(held.val))

Do_LineSegment_num_points ==
    /\ held.kind = "LineSegment"
    /\ Method("LineSegment::num_points", LineSegment_num_points(held.val))

Do_LineSegment_point_n ==
    /\ held.kind = "LineSegment"
    /\ \E number \in 0..MaxIndex :
          IndexedMethod("LineSegment::point_n", number,
                        LineSegment_point_n(held.val, number))

Do_LineSegment_length ==
    /\ held.kind = "LineSegment"
    /\ Method("LineSegment::length", LineSegment_length(held.val))

\* to_string() through Display, on any held value that implements it.
Do_to_string ==
    \/ /\ held.kind = "LineSegment"
       /\ Method("LineSegment::to_string", LineSegment_to_string(held.val))
    \/ /\ held.kind = "LineString"
       /\ Method("LineString::to_string", LineString_to_string(held.val))
    \/ /\ held.kind = "MultiLineString"
       /\ Method("MultiLineString::to_string", MultiLineString_to_string(held.val))
    \/ /\ held.kind = "Polygon"
       /\ Method("Polygon::to_string", Polygon_to_string(held.val))
    \/ /\ held.kind = "MultiPolygon"
       /\ Method("MultiPolygon::to_string", MultiPolygon_to_string(held.val))
    \/ /\ held.kind = "MultiPoint"
       /\ Method("MultiPoint::to_string", MultiPoint_to_string(held.val))

\* The caller's scope ends (or, after a panic, the thread has unwound): the
\* held value is dropped.
Drop ==
    /\ call # Idle
    /\ held' = Nothing
    /\ call' = Idle
    /\ ret' = NoRet

Next ==
    \/ Do_LineString_new
    \/ Do_MultiLineString_try_from
    \/ Do_PolygonRing_new
    \/ Do_PolygonRing_new_stored
    \/ Do_Polygon_new
    \/ Do_MultiPolygon_try_from
    \/ Do_LineSegment_new
    \/ Do_MultiPoint_from
    \/ Do_LineSegment_centroid
    \/ Do_LineSegment_is_simple
    \/ Do_MultiPoint_is_simple
    \/ Do_LineSegment_is_closed
    \/ Do_LineSegment_is_ring
    \/ Do_MultiPoint_centroid
    \/ Do_MultiPoint_num_geometries
    \/ Do_MultiPoint_geometry_n
    \/ Do_LineSegment_start_point
    \/ Do_LineSegment_end_point
    \/ Do_LineSegment_num_points
    \/ Do_LineSegment_point_n
    \/ Do_LineSegment_length
    \/ Do_to_string
    \/ Drop

Spec == Init /\ [][Next]_vars

(***************************************************************************)
(* Vocabulary of the properties.                                           *)
(***************************************************************************)
\* The != of the input type T on two raw coordinates.
Differ(T, a, b) ==
    IF T = "i32" THEN a # b
    ELSE ~(FEq(a[1], b[1]) /\ FEq(a[2], b[2]))

\* stored holds, at its first Len(input) positions, the input coordinates
\* coerced to f64, in the input's order.
StoresInput(T, input, stored) ==
    /\ Len(stored) >= Len(input)
    /\ \A i \in 1..Len(input) :
          /\ stored[i][1] = cast(T, input[i][1])
          /\ stored[i][2] = cast(T, input[i][2])

\* The last stored coordinate of a ring is its first stored coordinate.
ClosedRing(ring) == Len(ring) >= 3 /\ ring[1] = ring[Len(ring)]

\* The rings the caller holds: the held ring, the rings of the held polygon,
\* the rings of the polygons of the held multi-polygon.
HeldRings ==
    IF held.kind = "PolygonRing" THEN {held.val}
    ELSE IF held.kind = "Polygon" THEN {held.val[i] : i \in 1..Len(held.val)}
    ELSE IF held.kind = "MultiPolygon"
         THEN UNION {{held.val[p][r] : r \in 1..Len(held.val[p])} :
                        p \in 1..Len(held.val)}
    ELSE {}

(***************************************************************************)
(* C1: LineString::new on n coordinates fails with TooFewCoords(n) when    *)
(* n < 2 and nothing is built; when n >= 2 it succeeds and the stored      *)
(* sequence is the input coerced to f64: the same length, the same         *)
(* coordinates in the same order, no closing coordinate appended.          *)
(***************************************************************************)
C1_LineStringNew ==
    call.op = "LineString::new" =>
        LET n == Len(call.arg)
        IN  IF n < 2
            THEN /\ ret.tag = "Err"
                 /\ ret.err = TooFewCoords(n)
                 /\ held = Nothing
            ELSE /\ ret.tag = "Ok"
                 /\ Len(ret.val) = n
                 /\ StoresInput(call.T, call.arg, ret.val)
                 /\ held = Held("LineString", ret.val)

\* LineString::new has stored a closed input of three coordinates as it is.
C1_Witness ==
    /\ call.op = "LineString::new"
    /\ Len(call.arg) = 3
    /\ call.arg[1] = call.arg[3]
    /\ ret.tag = "Ok"
    /\ Len(ret.val) = 3

(***************************************************************************)
(* C2: PolygonRing::new on n coordinates fails with TooFewCoords(n) when   *)
(* n < 3; when n >= 3 it succeeds, the first n stored coordinates are the  *)
(* input in order, and the stored length is n + 1 (the first coordinate    *)
(* appended) exactly when the input's first and last coordinates differ    *)
(* (under the != of the input type), and n otherwise.                      *)
(***************************************************************************)
C2_PolygonRingNew ==
    call.op = "PolygonRing::new" =>
        LET n == Len(call.arg)
        IN  IF n < 3
            THEN /\ ret.tag = "Err"
                 /\ ret.err = TooFewCoords(n)
                 /\ held = Nothing
            ELSE /\ ret.tag = "Ok"
                 /\ StoresInput(call.T, call.arg, ret.val)
                 /\ IF Differ(call.T, call.arg[1], call.arg[n])
                    THEN /\ Len(ret.val) = n + 1
                         /\ ret.val[n + 1] = ret.val[1]
                    ELSE Len(ret.val) = n

\* PolygonRing::new has closed an open input of three coordinates.
C2_Witness ==
    /\ call.op = "PolygonRing::new"
    /\ Len(call.arg) = 3
    /\ call.arg[1] # call.arg[3]
    /\ ret.tag = "Ok"
    /\ Len(ret.val) = 4

C4_Original ==
    (/\ call.op = "PolygonRing::new"
     /\ Len(call.arg) >= 1
     /\ ~Differ(call.T, call.arg[1], call.arg[Len(call.arg)])
     /\ ret.tag = "Ok")
        => LET open == PolygonRing_new(call.T, SubSeq(call.arg, 1, Len(call.arg) - 1))
           IN  open.tag = "Ok" /\ open.val = ret.val

(***************************************************************************)
(* C4 amended: for every already-closed sequence of at least 4             *)
(* coordinates whose closing coordinate is the only one that closes it     *)
(* (the coordinate before the last differs from the first),                *)
(* PolygonRing::new on the sequence and PolygonRing::new on the sequence   *)
(* without its closing coordinate both succeed and store the identical     *)
(* sequence.                                                               *)
(***************************************************************************)
C4_ClosureIdempotence ==
    (/\ call.op = "PolygonRing::new"
     /\ Len(call.arg) >= 4
     /\ ~Differ(call.T, call.arg[1], call.arg[Len(call.arg)])
     /\ Differ(call.T, call.arg[1], call.arg[Len(call.arg) - 1]))
        => LET open == PolygonRing_new(call.T, SubSeq(call.arg, 1, Len(call.arg) - 1))
           IN  ret.tag = "Ok" /\ open.tag = "Ok" /\ open.val = ret.val

\* PolygonRing::new has accepted a closed input of four coordinates.
C4_Witness ==
    /\ call.op = "PolygonRing::new"
    /\ Len(call.arg) = 4
    /\ ~Differ(call.T, call.arg[1], call.arg[4])
    /\ Differ(call.T, call.arg[1], call.arg[3])
    /\ ret.tag = "Ok"

(***************************************************************************)
(* C5: for every LineSegment with start (x0, y0) and end (x1, y1),         *)
(* centroid() returns the midpoint ((x0 + x1) / 2, (y0 + y1) / 2),         *)
(* wherever the start point lies.                                          *)
(***************************************************************************)
Midpoint(segment) ==
    <<FDiv(FAdd(segment[1][1], segment[2][1]), Frac(2, 1)),
      FDiv(FAdd(segment[1][2], segment[2][2]), Frac(2, 1))>>

C5_CentroidIsMidpoint ==
    call.op = "LineSegment::centroid" => ret.val = Midpoint(held.val)

(***************************************************************************)
(* C6: MultiPolygon::try_from returns, when some ring of some polygon has  *)
(* fewer than 3 coordinates, the TooFewCoords error of the first such ring *)
(* (in polygon order, then ring order) as an Err value, and builds         *)
(* nothing; when every ring has at least 3 coordinates it succeeds with    *)
(* the polygons in input order.                                            *)
(***************************************************************************)
ShortRings(vectors) ==
    {x \in (1..Len(vectors)) \X (1..MaxMembers + 1) :
        x[2] <= Len(vectors[x[1]]) /\ Len(vectors[x[1]][x[2]]) < 3}

FirstOf(S) ==
    CHOOSE x \in S : \A y \in S : x[1] < y[1] \/ (x[1] = y[1] /\ x[2] <= y[2])

C6_MultiPolygonShortCircuits ==
    call.op = "MultiPolygon::try_from" =>
        IF ShortRings(call.arg) # {}
        THEN LET first == FirstOf(ShortRings(call.arg))
             IN  /\ ret.tag = "Err"
                 /\ ret.err = TooFewCoords(Len(call.arg[first[1]][first[2]]))
                 /\ held = Nothing
        ELSE /\ ret.tag = "Ok"
             /\ Len(ret.val) = Len(call.arg)
             /\ \A p \in 1..Len(call.arg) :
                   /\ Len(ret.val[p]) = Len(call.arg[p])
                   /\ \A r \in 1..Len(call.arg[p]) :
                         StoresInput(call.T, call.arg[p][r], ret.val[p][r])

(***************************************************************************)
(* C7: MultiLineString::try_from returns Err(TooFewCoords(k)), k the       *)
(* length of the first member with fewer than 2 coordinates, whatever the  *)
(* later members are; when every member has at least 2 coordinates it      *)
(* succeeds with one LineString per member, in input order, each storing   *)
(* its input coordinates unmodified.                                       *)
(***************************************************************************)
ShortLines(vectors) == {i \in 1..Len(vectors) : Len(vectors[i]) < 2}

C7_MultiLineStringTryFrom ==
    call.op = "MultiLineString::try_from" =>
        LET short == ShortLines(call.arg)
        IN  IF short # {}
            THEN LET k == CHOOSE i \in short : \A j \in short : i <= j
                 IN  /\ ret.tag = "Err"
                     /\ ret.err = TooFewCoords(Len(call.arg[k]))
                     /\ held = Nothing
            ELSE /\ ret.tag = "Ok"
                 /\ Len(ret.val) = Len(call.arg)
                 /\ \A i \in 1..Len(call.arg) :
                       /\ Len(ret.val[i]) = Len(call.arg[i])
                       /\ StoresInput(call.T, call.arg[i], ret.val[i])

\* The conversion has failed on its first member although a later member is
\* too short too, with another length.
C7_Witness ==
    /\ call.op = "MultiLineString::try_from"
    /\ Len(call.arg) = 2
    /\ Len(call.arg[1]) = 1
    /\ Len(call.arg[2]) = 0
    /\ ret.tag = "Err"

(***************************************************************************)
(* C8: Polygon::new never returns an Err value: when every ring has at     *)
(* least 3 coordinates it returns Ok with one closed PolygonRing per input *)
(* ring, in input order (an empty ring list gives an empty Polygon); when  *)
(* some ring has fewer than 3 coordinates the call panics (the unwrap of   *)
(* the ring's TooFewCoords) instead of returning the error.                *)
(***************************************************************************)
C8_PolygonNewAborts ==
    call.op = "Polygon::new" =>
        /\ ret.tag # "Err"
        /\ IF \E i \in 1..Len(call.arg) : Len(call.arg[i]) < 3
           THEN ret.tag = "Panic" /\ held = Nothing
           ELSE /\ ret.tag = "Ok"
                /\ Len(ret.val) = Len(call.arg)
                /\ \A i \in 1..Len(call.arg) :
                      /\ StoresInput(call.T, call.arg[i], ret.val[i])
                      /\ ClosedRing(ret.val[i])
                      /\ Len(ret.val[i]) \in {Len(call.arg[i]), Len(call.arg[i]) + 1}

\* Polygon::new has panicked on a ring that follows a good one.
C8_Witness ==
    /\ call.op = "Polygon::new"
    /\ Len(call.arg) = 2
    /\ Len(call.arg[1]) >= 3
    /\ Len(call.arg[2]) < 3
    /\ ret.tag = "Panic"

(***************************************************************************)
(* C9: for every MultiPoint, the empty and the single-member ones          *)
(* included, is_simple() returns true if and only if no two members at     *)
(* distinct positions have equal coordinates (== on the points).           *)
(***************************************************************************)
C9_MultiPointIsSimple ==
    call.op = "MultiPoint::is_simple" =>
        (ret.val <=>
            ~\E i, j \in 1..Len(held.val) : i # j /\ CoordEq(held.val[i], held.val[j]))

\* is_simple() has returned false on a MultiPoint whose first and last of
\* three members coincide.
C9_Witness ==
    /\ call.op = "MultiPoint::is_simple"
    /\ Len(held.val) = 3
    /\ held.val[1] = held.val[3]
    /\ held.val[1] # held.val[2]
    /\ ret.val = FALSE

(***************************************************************************)
(* C10: a LineSegment is always simple: is_simple() returns true for       *)
(* distinct end points and for identical end points alike.                 *)
(***************************************************************************)
C10_LineSegmentIsSimple ==
    call.op = "LineSegment::is_simple" => ret.val = TRUE

\* is_simple() has returned on a closed (degenerate) segment.
C10_Witness ==
    /\ call.op = "LineSegment::is_simple"
    /\ LineSegment_is_closed(held.val)
    /\ ret.tag = "Value"

(***************************************************************************)
(* C11: for every LineSegment, is_closed() holds iff the start point ==    *)
(* the end point, and is_ring() holds iff the segment is closed and        *)
(* simple: is_ring() is false for every segment whose end points differ    *)
(* and true for every segment whose end points are equal.                  *)
(***************************************************************************)
EndPointsEqual(segment) ==
    FEq(segment[1][1], segment[2][1]) /\ FEq(segment[1][2], segment[2][2])

C11_ClosedAndRing ==
    /\ call.op = "LineSegment::is_closed" =>
          (ret.val <=> EndPointsEqual(held.val))
    /\ call.op = "LineSegment::is_ring" =>
          /\ ret.val <=> (EndPointsEqual(held.val) /\ LineSegment_is_simple(held.val))
          /\ ret.val <=> EndPointsEqual(held.val)

\* is_ring() has returned on a segment whose end points differ.
C11_Witness ==
    /\ call.op = "LineSegment::is_ring"
    /\ held.val[1] # held.val[2]
    /\ ret.val = FALSE


(***************************************************************************)
(* C12: centroid() on a MultiPoint with no members fails with an error     *)
(* value; it does not return a Point, and in particular not a Point whose  *)
(* components are NaN.                                                     *)
(***************************************************************************)
C12_EmptyCentroidFails ==
    (call.op = "MultiPoint::centroid" /\ Len(held.val) = 0) =>
        /\ ret.tag = "Err"
        /\ ret.tag # "Value"


(***************************************************************************)
(* C13: geometry_n(i) on a MultiPoint returns its i-th member when         *)
(* i < num_geometries(); point_n(0) and point_n(1) on a LineSegment return *)
(* start_point() and end_point(), and num_points() returns 2; an index     *)
(* out of range gives an error value: the call neither panics nor returns  *)
(* a Point.                                                                *)
(***************************************************************************)
C13_InRange ==
    /\ call.op = "MultiPoint::geometry_n" /\ call.number < Len(held.val) =>
          ret = Value(held.val[call.number + 1])
    /\ call.op = "LineSegment::point_n" /\ call.number = 0 =>
          ret = Value(LineSegment_start_point(held.val))
    /\ call.op = "LineSegment::point_n" /\ call.number = 1 =>
          ret = Value(LineSegment_end_point(held.val))
    /\ call.op = "LineSegment::num_points" => ret = Value(2)

C13_OutOfRange ==
    /\ call.op = "MultiPoint::geometry_n" /\ call.number >= Len(held.val) =>
          ret.tag = "Err"
    /\ call.op = "LineSegment::point_n" /\ call.number >= 2 =>
          ret.tag = "Err"

C13_IndexedAccess == C13_InRange /\ C13_OutOfRange


(***************************************************************************)
(* C14: no operation on a constructed geometry changes the sequence it     *)
(* stores.  Every step that is not a construction and not the end of the   *)
(* caller's scope (an accessor, centroid, is_simple, is_closed, is_ring,   *)
(* length, num_points / point_n, num_geometries / geometry_n, to_string)   *)
(* leaves the held value as it was, whether the call returns or panics.    *)
(***************************************************************************)
Constructors ==
    {"LineString::new", "MultiLineString::try_from", "PolygonRing::new",
     "PolygonRing::new(ring.to_vec())", "Polygon::new",
     "MultiPolygon::try_from", "LineSegment::new", "MultiPoint::from"}

C14_Rendered ==
    /\ call.op = "MultiPoint::to_string"
    /\ ret.val = "MULTIPOINT ((0.5 1), (NaN 0))"


(***************************************************************************)
(* C15, as stated: centroid() on a non-empty MultiPoint returns the Point  *)
(* (sum of x / n, sum of y / n), each member counted once per occurrence,  *)
(* and returns that same Point for every order of the members.             *)
(***************************************************************************)
\* The f64 sum of one axis, the members added in their order.
RECURSIVE SumInOrder(_, _)
SumInOrder(points, axis) ==
    IF Len(points) = 0 THEN Frac(0, 1)
    ELSE FAdd(SumInOrder(SubSeq(points, 1, Len(points) - 1), axis),
              points[Len(points)][axis])

Mean(points) ==
    <<FDiv(SumInOrder(points, 1), Frac(Len(points), 1)),
      FDiv(SumInOrder(points, 2), Frac(Len(points), 1))>>

Orders(points) ==
    {[i \in 1..Len(points) |-> points[p[i]]] :
        p \in {q \in [1..Len(points) -> 1..Len(points)] :
                  \A i, j \in 1..Len(points) : q[i] = q[j] => i = j}}

C15_Original ==
    (call.op = "MultiPoint::centroid" /\ Len(held.val) > 0) =>
        /\ ret = Value(Mean(held.val))
        /\ \A other \in Orders(held.val) : Mean(other) = ret.val

(***************************************************************************)
(* C15, amended: centroid() on a non-empty MultiPoint returns the Point    *)
(* (sx / n, sy / n), where sx and sy are the f64 sums of the members' x    *)
(* and y added in member order, each member counted once per occurrence;   *)
(* it is the same Point for every order of the members in which, as in     *)
(* the stored order, no addition of the two sums rounds or overflows.      *)
(***************************************************************************)
\* a + b is exact in f64.
ExactAdd(a, b) ==
    IF IsNaN(a) \/ IsNaN(b) THEN TRUE
    ELSE IF ~IsFinite(a) \/ ~IsFinite(b) THEN FALSE
    ELSE IF IsBig(a) /\ IsBig(b) THEN IsFinite(FAdd(a, b))
    ELSE IF IsBig(a) THEN b.num = 0
    ELSE IF IsBig(b) THEN a.num = 0
    ELSE TRUE

ExactSum(points, axis) ==
    \A k \in 1..Len(points) :
        ExactAdd(SumInOrder(SubSeq(points, 1, k - 1), axis), points[k][axis])

Exact(points) == ExactSum(points, 1) /\ ExactSum(points, 2)

C15_CentroidIsMean ==
    (call.op = "MultiPoint::centroid" /\ Len(held.val) > 0) =>
        /\ ret = Value(Mean(held.val))
        /\ Exact(held.val) =>
              \A other \in Orders(held.val) :
                  Exact(other) => MultiPoint_centroid(other) = ret.val

\* centroid() has returned on three points that sum exactly in the stored
\* order and in another order, but not in all.
C15_Witness ==
    /\ call.op = "MultiPoint::centroid"
    /\ Len(held.val) = 3
    /\ Exact(held.val)
    /\ \E other \in Orders(held.val) : other # held.val /\ Exact(other)
    /\ \E other \in Orders(held.val) : ~Exact(other)


(***************************************************************************)
(* C16: PolygonRing::new is idempotent on its own output.  Applied to the  *)
(* sequence a PolygonRing stores, it succeeds and gives a PolygonRing that *)
(* stores that same sequence: no second closing coordinate is appended.    *)
(***************************************************************************)
C16_Idempotent ==
    call.op = "PolygonRing::new(ring.to_vec())" =>
        /\ ret.tag = "Ok"
        /\ ret.val = call.arg

\* The same, for the rings whose first coordinate has no NaN component.
C16_IdempotentWithoutNaN ==
    (/\ call.op = "PolygonRing::new(ring.to_vec())"
     /\ CoordEq(call.arg[1], call.arg[1])) =>
        /\ ret.tag = "Ok"
        /\ ret.val = call.arg

====
